---- MODULE Spec2Model ----
(***************************************************************************)
(* Model of the RSS-to-channel poll loop of src/main.py: the dedup store   *)
(* (table posts, link PRIMARY KEY), process_feed with its first-run        *)
(* (BOOTSTRAP) and normal (STEADY) branches, send_item, and scheduler.     *)
(* The feed source, the Telegram sink and the SQLite store are the         *)
(* environment: each await on them can succeed or raise, and the process   *)
(* can be stopped at any await and started again.                          *)
(***************************************************************************)
EXTENDS Naturals, Sequences, FiniteSets

\* ------------------------------------------------------------------ bounds
MaxFeed == 3            \* most items the feed lists at once

\* ------------------------------------------------------------------ values
Links  == {"a", "b"}
NoLink == "nolink"      \* an <item> with no <link> tag, or with an empty one
Items  == Links \cup {NoLink}
None   == "None"

VARIABLES
    feed,        \* the feed at the source, newest first
    store,       \* table posts: the set of recorded links
    first_run,   \* scheduler's local first_run
    pc,          \* where the scheduler task is
    items,       \* process_feed's items
    idx,         \* position of the running for-loop in items (1 = newest)
    cycCalls,    \* delivery calls of the running poll cycle, in call order
    store0,      \* the store when the running poll cycle started
    fetched,     \* outcome of the running cycle's fetch
    pauses,      \* how many times the running cycle slept after a send
    returned,    \* history: a process_feed call of this run has returned
    msg,         \* send_item's message under construction (message builder only)
    called,      \* history: links a delivery call was ever made for
    posted,      \* history: links the sink ever accepted
    delivered,   \* history: links recorded by send_item after their send
    overtaken,   \* history: older new items of a STEADY cycle still unposted
                 \*          when a newer item of that cycle was posted
    backlog,     \* history: links of the feed at process start, newest excluded,
                 \*          that have had no record since
    interrupted, \* history: link whose send was in flight when the process stopped
    prev         \* history: how the previous completed poll cycle went, while
                 \*          the feed is as that cycle left it ("none" otherwise)

vars == <<feed, store, first_run, pc, items, idx, cycCalls, store0, fetched,
          pauses, returned, msg,
          called, posted, delivered, overtaken, backlog, interrupted, prev>>

hist == <<called, posted, delivered, overtaken, backlog, interrupted, prev>>

\* ------------------------------------------------------------------ helpers
\* item.find('link').text.strip() if item.find('link') else None
LinkOf(item) == IF item = NoLink THEN None ELSE item

\* `if link` / `if not link`: None and "" are falsy
Truthy(link) == link # None

LinksOf(seq) == {LinkOf(seq[i]) : i \in 1..Len(seq)} \ {None}

\* SELECT 1 FROM posts WHERE link = ?
post_exists(link) == link \in store

\* INSERT INTO posts: the PRIMARY KEY refuses a link that is already there
add_post_raises(link) == link \in store
add_post(link) == store \cup {link}

\* fetch_rss without the status test
fetch_rss_AnyStatus(resp) ==
    IF resp.kind = "response" THEN resp.text ELSE None

\* fetch_rss: the body of a 200 response, None for any other status or an
\* exception of the HTTP client
fetch_rss(resp) ==
    IF resp.kind = "response" /\ resp.status = 200 THEN resp.text ELSE None

\* what the HTTP client can hand back for the feed as it is now
Responses ==
    {[kind |-> "exception", status |-> 0, text |-> <<>>]} \cup
    {[kind |-> "response", status |-> s, text |-> feed] : s \in {200, 500}}

Entry(pos, link, out) == [pos |-> pos, link |-> link, out |-> out]

Last(seq) == seq[Len(seq)]

SetLast(seq, out) == [seq EXCEPT ![Len(seq)].out = out]


\* an init_db that creates the table anew
init_db_Recreates(s) == {}

\* CREATE TABLE IF NOT EXISTS posts: an existing table keeps its rows
init_db(s) == s

\* the BOOTSTRAP send without its post_exists test
BootSendsLatest_NoExistsTest(link) == Truthy(link)

\* a BOOTSTRAP that only marks as seen and never sends
BootSendsLatest_Never(link) == FALSE

\* `if latest_link and not await post_exists(latest_link)` (BOOTSTRAP, the send)
BootSendsLatest(link) == Truthy(link) /\ ~post_exists(link)

\* a BOOTSTRAP whose mark-as-seen loop records nothing
BootMarks_Nothing(link) == FALSE

\* `if link and not await post_exists(link)` (BOOTSTRAP, the mark-as-seen loop)
BootMarks(link) == Truthy(link) /\ ~post_exists(link)

\* the STEADY loop without its post_exists test
SteadySends_NoExistsTest(link) == Truthy(link)

\* `if not link: continue`, `if await post_exists(link): continue` (STEADY)
SteadySends(link) == Truthy(link) /\ ~post_exists(link)

\* `for item in items`: the loop without reversed()
SteadyVisit_Forward(k, n) == k

\* `for item in reversed(items)`: the position visited by iteration k of n items
SteadyVisit(k, n) == n + 1 - k

\* the position the running loop is at
CurPos == IF pc = "steady" THEN SteadyVisit(idx, Len(items)) ELSE idx

\* the link the running step of process_feed looks at
CurLink ==
    CASE pc = "boot_check" -> LinkOf(items[1])
      [] pc = "boot_mark"  -> LinkOf(items[idx])
      [] pc = "steady"     -> LinkOf(items[CurPos])
      [] OTHER             -> None

\* links of the fetched list that are strictly older than position pos
StrictlyOlder(pos) ==
    LinksOf(SubSeq(items, pos + 1, Len(items))) \ LinksOf(SubSeq(items, 1, pos))

\* ------------------------------------------------------------------ state
InitTask ==
    /\ feed = <<>>
    /\ store = {}
    /\ first_run = TRUE
    /\ pc = "down"
    /\ items = <<>>
    /\ idx = 0
    /\ cycCalls = <<>>
    /\ store0 = {}
    /\ fetched = "none"
    /\ pauses = 0
    /\ returned = FALSE
    /\ called = {}
    /\ posted = {}
    /\ delivered = {}
    /\ overtaken = {}
    /\ backlog = {}
    /\ interrupted = None
    /\ prev = "none"

\* no message is under construction
NoMsg == [stage |-> "none", safe_title |-> 0, safe_text |-> 0, link |-> 0,
          mono |-> 0, image |-> FALSE, kept |-> 0, ellipsis |-> 0, len |-> 0]

Init == InitTask /\ msg = NoMsg

\* the locals of the scheduler task, as they are outside a poll cycle
NoCycle ==
    /\ items' = <<>>
    /\ idx' = 0
    /\ cycCalls' = <<>>
    /\ store0' = {}
    /\ fetched' = "none"
    /\ pauses' = 0

\* ------------------------------------------------------------------ environment
\* the source publishes an item; the feed lists the MaxFeed newest
Publish(item) ==
    /\ pc \in {"down", "poll"}
    /\ feed' = SubSeq(<<item>> \o feed, 1,
                      IF Len(feed) < MaxFeed THEN Len(feed) + 1 ELSE MaxFeed)
    /\ prev' = "none"
    /\ backlog' = backlog \cap LinksOf(feed')
    /\ UNCHANGED <<store, first_run, pc, items, idx, cycCalls, store0, fetched,
                   called, posted, delivered, overtaken, interrupted>>
    /\ UNCHANGED <<pauses, returned, msg>>

\* the process is stopped from outside, at any await of the scheduler task
Stop ==
    /\ pc # "down"
    /\ pc' = "down"
    /\ first_run' = TRUE
    /\ interrupted' = IF pc = "inflight" THEN Last(cycCalls).link
                      ELSE IF pc = "poll" THEN interrupted ELSE None
    /\ NoCycle
    /\ UNCHANGED <<feed, store, called, posted, delivered, overtaken, backlog, prev>>
    /\ returned' = FALSE
    /\ UNCHANGED msg

\* main -> scheduler: init_db(), first_run = True
Start ==
    /\ pc = "down"
    /\ pc' = "poll"
    /\ store' = init_db(store)
    /\ first_run' = TRUE
    /\ backlog' = IF feed = <<>> THEN {}
                  ELSE (LinksOf(Tail(feed)) \ {LinkOf(Head(feed))}) \ store
    /\ NoCycle
    /\ UNCHANGED <<feed, called, posted, delivered, overtaken, interrupted, prev>>
    /\ returned' = FALSE
    /\ UNCHANGED msg

\* ------------------------------------------------------------------ process_feed
\* process_feed up to the branch on first_run
ProcessFeed(resp) ==
    /\ pc = "poll"
    /\ fetched' = IF resp.kind = "response" /\ resp.status = 200
                  THEN (IF resp.text = <<>> THEN "empty" ELSE "ok")
                  ELSE "fail"
    /\ LET xml_content == fetch_rss(resp) IN
         IF xml_content = None \/ xml_content = <<>>
         THEN /\ pc' = "ret"
              /\ UNCHANGED <<items, idx>>
         ELSE /\ items' = xml_content
              /\ idx' = 1
              /\ pc' = IF first_run THEN "boot_check" ELSE "steady"
    /\ store0' = store
    /\ UNCHANGED <<feed, store, first_run, cycCalls, hist>>
    /\ UNCHANGED <<pauses, returned, msg>>

FetchOk == \E resp \in Responses :
    /\ resp.kind = "response" /\ resp.status = 200
    /\ ProcessFeed(resp)

FetchFail == \E resp \in Responses :
    /\ ~(resp.kind = "response" /\ resp.status = 200)
    /\ ProcessFeed(resp)

\* send_item reaches its await bot.send_photo / bot.send_message
MakeCall(pos, link) ==
    /\ cycCalls' = Append(cycCalls, Entry(pos, link, "pending"))
    /\ called' = called \cup {link}
    /\ pc' = "inflight"

\* the for-loop of process_feed moves to its next item, or process_feed returns
Advance ==
    /\ idx' = idx + 1
    /\ pc' = IF idx + 1 > Len(items) THEN "ret" ELSE pc

\* send_item returned to process_feed
AfterSend ==
    IF first_run
    THEN pc' = "boot_mark" /\ idx' = 1
    ELSE /\ idx' = idx + 1
         /\ pc' = IF idx + 1 > Len(items) THEN "ret" ELSE "steady"

\* BOOTSTRAP: the newest item is sent if its link is not recorded
BootCheck ==
    /\ pc = "boot_check"
    /\ LET latest_link == LinkOf(items[1]) IN
         IF BootSendsLatest(latest_link)
         THEN /\ MakeCall(1, latest_link)
              /\ UNCHANGED idx
         ELSE /\ pc' = "boot_mark"
              /\ idx' = 1
              /\ UNCHANGED <<cycCalls, called>>
    /\ UNCHANGED <<feed, store, first_run, items, store0, fetched,
                   posted, delivered, overtaken, backlog, interrupted, prev>>
    /\ UNCHANGED <<pauses, returned, msg>>

\* BOOTSTRAP: one iteration of the loop that marks every item as seen
BootMark ==
    /\ pc = "boot_mark"
    /\ LET link == LinkOf(items[idx]) IN
         IF BootMarks(link)
         THEN /\ ~add_post_raises(link)
              /\ store' = add_post(link)
              /\ backlog' = backlog \ {link}
         ELSE UNCHANGED <<store, backlog>>
    /\ Advance
    /\ UNCHANGED <<feed, first_run, items, cycCalls, store0, fetched,
                   called, posted, delivered, overtaken, interrupted, prev>>
    /\ UNCHANGED <<pauses, returned, msg>>

\* STEADY: one iteration of the oldest-to-newest loop
SteadyStep ==
    /\ pc = "steady"
    /\ LET pos  == SteadyVisit(idx, Len(items))
           link == LinkOf(items[pos]) IN
         IF SteadySends(link)
         THEN /\ MakeCall(pos, link)
              /\ UNCHANGED idx
         ELSE /\ Advance
              /\ UNCHANGED <<cycCalls, called>>
    /\ UNCHANGED <<feed, store, first_run, items, store0, fetched,
                   posted, delivered, overtaken, backlog, interrupted, prev>>
    /\ UNCHANGED <<pauses, returned, msg>>

\* post_exists or add_post raises inside process_feed, where nothing catches
\* it: the exception ends the scheduler task
StoreRaise ==
    /\ pc \in {"boot_check", "boot_mark", "steady"}
    /\ Truthy(CurLink)
    /\ pc' = "crashed"
    /\ NoCycle
    /\ UNCHANGED <<feed, store, first_run, hist>>
    /\ UNCHANGED <<returned, msg>>

\* ------------------------------------------------------------------ send_item
\* a send_item that records the link although the sink raised
SinkRaise_StillRecords ==
    /\ pc = "inflight"
    /\ cycCalls' = SetLast(cycCalls, "fail")
    /\ store' = add_post(Last(cycCalls).link)
    /\ AfterSend
    /\ UNCHANGED <<feed, first_run, items, store0, fetched, hist>>
    /\ UNCHANGED <<pauses, returned, msg>>

\* a send_item whose exception leaves process_feed
SinkRaise_AbortsCycle ==
    /\ pc = "inflight"
    /\ cycCalls' = SetLast(cycCalls, "fail")
    /\ pc' = "ret"
    /\ UNCHANGED idx
    /\ UNCHANGED <<feed, store, first_run, items, store0, fetched, hist>>
    /\ UNCHANGED <<pauses, returned, msg>>

\* the sink raises: `except Exception` logs it
SinkRaise ==
    /\ pc = "inflight"
    /\ cycCalls' = SetLast(cycCalls, "fail")
    /\ AfterSend
    /\ UNCHANGED <<feed, store, first_run, items, store0, fetched, hist>>
    /\ UNCHANGED <<pauses, returned, msg>>

\* the sink accepts the message
SinkOk ==
    /\ pc = "inflight"
    /\ LET e == Last(cycCalls) IN
         /\ posted' = posted \cup {e.link}
         /\ overtaken' =
              IF first_run THEN overtaken
              ELSE overtaken \cup
                   (StrictlyOlder(e.pos) \ (store0 \cup posted \cup {e.link}))
    /\ cycCalls' = SetLast(cycCalls, "sent")
    /\ pc' = "record"
    /\ UNCHANGED <<feed, store, first_run, items, idx, store0, fetched,
                   called, delivered, backlog, interrupted, prev>>
    /\ UNCHANGED <<pauses, returned, msg>>

\* `await add_post(link)` after the send
AddOk ==
    /\ pc = "record"
    /\ LET link == Last(cycCalls).link IN
         /\ ~add_post_raises(link)
         /\ store' = add_post(link)
         /\ delivered' = delivered \cup {link}
         /\ backlog' = backlog \ {link}
    /\ cycCalls' = SetLast(cycCalls, "ok")
    /\ pc' = "pause"
    /\ UNCHANGED <<feed, first_run, items, idx, store0, fetched,
                   called, posted, overtaken, interrupted, prev>>
    /\ UNCHANGED <<pauses, returned, msg>>

\* add_post raises after the send: `except Exception` logs it, no sleep
AddRaise ==
    /\ pc = "record"
    /\ cycCalls' = SetLast(cycCalls, "norecord")
    /\ AfterSend
    /\ UNCHANGED <<feed, store, first_run, items, store0, fetched, hist>>
    /\ UNCHANGED <<pauses, returned, msg>>

\* `await asyncio.sleep(3)` is over
PauseDone ==
    /\ pc = "pause"
    /\ AfterSend
    /\ UNCHANGED <<feed, store, first_run, items, cycCalls, store0, fetched, hist>>
    /\ pauses' = pauses + 1
    /\ UNCHANGED <<returned, msg>>

\* ------------------------------------------------------------------ scheduler
\* a completed cycle that fetched the feed and whose every delivery call was
\* accepted and recorded
CleanCycle ==
    /\ fetched \in {"ok", "empty"}
    /\ \A i \in 1..Len(cycCalls) : cycCalls[i].out = "ok"

\* a scheduler that leaves first_run set until a cycle has fetched the feed
Return_KeepsFirstRunOnFailure ==
    /\ pc = "ret"
    /\ first_run' = IF fetched = "ok" THEN FALSE ELSE first_run
    /\ pc' = "poll"
    /\ prev' = IF CleanCycle THEN "clean" ELSE "dirty"
    /\ interrupted' = None
    /\ NoCycle
    /\ UNCHANGED <<feed, store, called, posted, delivered, overtaken, backlog>>
    /\ returned' = TRUE
    /\ UNCHANGED msg

\* process_feed returned: first_run = False, sleep(300), next iteration
Return ==
    /\ pc = "ret"
    /\ first_run' = FALSE
    /\ pc' = "poll"
    /\ prev' = IF CleanCycle THEN "clean" ELSE "dirty"
    /\ interrupted' = None
    /\ NoCycle
    /\ UNCHANGED <<feed, store, called, posted, delivered, overtaken, backlog>>
    /\ returned' = TRUE
    /\ UNCHANGED msg

Next ==
    \/ \E item \in Items : Publish(item)
    \/ Stop
    \/ Start
    \/ FetchOk
    \/ FetchFail
    \/ BootCheck
    \/ BootMark
    \/ SteadyStep
    \/ StoreRaise
    \/ SinkRaise
    \/ SinkOk
    \/ AddOk
    \/ AddRaise
    \/ PauseDone
    \/ Return

Spec == Init /\ [][Next]_vars

\* ------------------------------------------------------------------ message
\* send_item's message text, by the lengths of its parts: safe_title and
\* safe_text are the html.escape()d title and body, link the item's link, mono
\* MONOBANK_LINK (0: not set), image whether the item has an enclosure.
TextLimit    == 900     \* safe_text[:900]
EllipsisLen  == 3       \* "..."
CaptionLimit == 1024    \* the sink's limit for a photo caption
MessageLimit == 4096    \* the sink's limit for a text message

TitleLens == {0, 9, 60, 120}
TextLens  == {0, 899, 900, 901, 5000}
LinkLens  == {10, 60}
MonoLens  == {0, 40}

MsgInputs ==
    {[stage |-> "item", safe_title |-> t, safe_text |-> n, link |-> l,
      mono |-> m, image |-> i, kept |-> 0, ellipsis |-> 0, len |-> 0] :
        t \in TitleLens, n \in TextLens, l \in LinkLens, m \in MonoLens,
        i \in BOOLEAN}

\* how much of safe_text the message keeps
BodyKept(n) == IF n > TextLimit THEN TextLimit ELSE n

\* f"{safe_text[:900]}..." if len(safe_text) > 900 else safe_text
BodyEllipsis(n) == IF n > TextLimit THEN EllipsisLen ELSE 0

\* len(message_text): "<b>" title "</b>\n\n", the body, "\n\n<a href=\"" link
\* "\">" the 9-letter label "</a>", and if MONOBANK_LINK is set " | <a href=\""
\* mono "\">" the 10-letter label "</a>"
MessageLen(t, n, l, m) ==
    (3 + t + 4 + 2) + (BodyKept(n) + BodyEllipsis(n)) + (2 + 9 + l + 2 + 9 + 4)
        + (IF m > 0 THEN 3 + 9 + m + 2 + 10 + 4 ELSE 0)

\* send_photo takes the text as caption, send_message as text
SinkLimit(image) == IF image THEN CaptionLimit ELSE MessageLimit

\* send_item builds message_text for one item
BuildMessage ==
    /\ msg.stage = "item"
    /\ msg' = [msg EXCEPT !.stage = "built",
                          !.kept = BodyKept(msg.safe_text),
                          !.ellipsis = BodyEllipsis(msg.safe_text),
                          !.len = MessageLen(msg.safe_title, msg.safe_text,
                                             msg.link, msg.mono)]
    /\ UNCHANGED <<feed, store, first_run, pc, items, idx, cycCalls, store0,
                   fetched, pauses, returned, hist>>

MsgInit == InitTask /\ msg \in MsgInputs

MsgSpec == MsgInit /\ [][BuildMessage]_vars

\* ------------------------------------------------------------------ liveness
\* One run of the process whose store stays available: no Stop, no StoreRaise.
NextLive ==
    \/ \E item \in Items : Publish(item)
    \/ Start
    \/ FetchOk
    \/ FetchFail
    \/ BootCheck
    \/ BootMark
    \/ SteadyStep
    \/ SinkRaise
    \/ SinkOk
    \/ AddOk
    \/ AddRaise
    \/ PauseDone
    \/ Return

\* a step of the scheduler task: every await of it returns or raises
TaskStep ==
    \/ Start
    \/ FetchOk
    \/ FetchFail
    \/ BootCheck
    \/ BootMark
    \/ SteadyStep
    \/ SinkRaise
    \/ SinkOk
    \/ AddOk
    \/ AddRaise
    \/ PauseDone
    \/ Return

\* the event loop keeps running the task; a fetch, a send and a record write
\* that are tried again and again succeed at some point
LiveSpec ==
    /\ Init
    /\ [][NextLive]_vars
    /\ WF_vars(TaskStep)
    /\ SF_vars(FetchOk)
    /\ SF_vars(SinkOk)
    /\ SF_vars(AddOk)

\* ------------------------------------------------------------------ claims
\* a delivery call for link L is made in this step
NewCall(L) ==
    /\ Len(cycCalls') = Len(cycCalls) + 1
    /\ Last(cycCalls').link = L

\* the sink accepted the call of entry e
Posted(e) == e.out \in {"sent", "ok", "norecord"}

\* C1 (as stated): for every link, at most one delivery call is ever made,
\* over any sequence of poll cycles, failures and restarts.
C1_AtMostOneCall == [][\A L \in Links : NewCall(L) => L \notin called]_vars

\* C1 (amended): a delivery call is made for a link only while the link has no
\* record in the store; a link recorded after its send never gets another call.
C1_NoCallOnceRecorded ==
    [][\A L \in Links : NewCall(L) => (L \notin store /\ L \notin delivered)]_vars

\* a STEADY cycle over a list holding a delivered link made calls, none for it
C1_Witness ==
    /\ pc = "ret" /\ ~first_run /\ cycCalls # <<>>
    /\ \E L \in delivered \cap LinksOf(items) :
         \A i \in 1..Len(cycCalls) : cycCalls[i].link # L

\* C2: a BOOTSTRAP cycle over a non-empty list makes at most one delivery call,
\* for items[0] and only if its link was not recorded, and when the cycle ends
\* every item with a link is recorded, whether that delivery worked or not.
C2_BootstrapSuppression ==
    (first_run /\ fetched = "ok") =>
        /\ Len(cycCalls) <= 1
        /\ \A i \in 1..Len(cycCalls) :
             /\ cycCalls[i].pos = 1
             /\ cycCalls[i].link = LinkOf(items[1])
             /\ cycCalls[i].link \notin store0
        /\ (pc = "ret" => LinksOf(items) \subseteq store)

\* a BOOTSTRAP cycle over two links ended after the delivery of items[0] failed
C2_Witness ==
    /\ pc = "ret" /\ first_run /\ fetched = "ok"
    /\ Cardinality(LinksOf(items)) = 2
    /\ Len(cycCalls) = 1 /\ cycCalls[1].out = "fail"

\* C3: no item of the backlog at process start, the newest excepted, gets a
\* delivery in a later STEADY cycle of the run, whatever the first cycle did.
\* (A backlog link with a record gets no delivery call at all, by C1.)
C3_BacklogNeverDelivered ==
    ~first_run => \A i \in 1..Len(cycCalls) : cycCalls[i].link \notin backlog

\* C4: a link whose delivery calls of a poll cycle all failed has no record
\* written by that cycle, in BOOTSTRAP and in STEADY cycles.
C4_FailedNotRecorded ==
    pc = "ret" =>
        \A L \in Links \ store0 :
            ( /\ \E i \in 1..Len(cycCalls) : cycCalls[i].link = L
              /\ \A i \in 1..Len(cycCalls) :
                   cycCalls[i].link = L => cycCalls[i].out = "fail" )
            => L \notin store

\* C5: the delivery calls of a STEADY cycle are made oldest first: a later call
\* is for an item nearer the head of the newest-first list.
C5_OldestFirstCalls ==
    ~first_run =>
        \A i, j \in 1..Len(cycCalls) : i < j => cycCalls[i].pos > cycCalls[j].pos

\* a STEADY cycle made two delivery calls
C5_Witness == ~first_run /\ Len(cycCalls) >= 2

\* C6 (as stated): a newer item is never posted before an older item that was
\* new in the same STEADY cycle, also when the older one is retried later.
C6_ChronologicalPosts == overtaken \cap posted = {}

\* C6 (amended): when the sink accepts an item in a STEADY cycle, every
\* strictly older item that was new in that cycle has had its delivery call
\* earlier in the cycle: a newer item is posted first only if the older call failed.
C6_OlderTriedFirst ==
    ~first_run =>
        \A i \in 1..Len(cycCalls) :
            Posted(cycCalls[i]) =>
                \A L \in StrictlyOlder(cycCalls[i].pos) \ store0 :
                    \E j \in 1..(i - 1) :
                        /\ cycCalls[j].link = L
                        /\ cycCalls[j].out \in {"fail", "ok", "norecord"}

\* the older of two new items failed and the newer one was posted and recorded
C6_Witness ==
    /\ ~first_run /\ Len(cycCalls) = 2
    /\ cycCalls[1].out = "fail" /\ cycCalls[2].out = "ok"
    /\ cycCalls[1].link # cycCalls[2].link

C8_AbortedCycleNoEffect ==
    fetched \in {"fail", "empty"} =>
        (pc = "ret" /\ cycCalls = <<>> /\ store = store0)

\* a fetch failed while the feed listed a link without a record
C8_Witness ==
    /\ pc = "ret" /\ fetched = "fail"
    /\ LinksOf(feed) \ store # {}

\* the delivery call of link L failed in the running STEADY cycle
FailedInSteady(L) ==
    /\ ~first_run
    /\ \E i \in 1..Len(cycCalls) : cycCalls[i].link = L /\ cycCalls[i].out = "fail"

C10_InterruptedRetried ==
    (pc = "ret" /\ first_run /\ fetched = "ok" /\ interrupted \in LinksOf(items))
        => \E i \in 1..Len(cycCalls) : cycCalls[i].link = interrupted

\* C10 (amended): in the next cycle, when its fetch succeeds, the item gets a
\* delivery call exactly if it is the newest item of the list; further down the
\* list it gets none, and either way the cycle ends with its link recorded.
C10_InterruptedRetriedIfNewest ==
    (pc = "ret" /\ first_run /\ fetched = "ok" /\ interrupted \in LinksOf(items))
        => /\ (\E i \in 1..Len(cycCalls) : cycCalls[i].link = interrupted)
                <=> interrupted = LinkOf(items[1])
           /\ interrupted \in store

\* the interrupted item was not the newest one of the next cycle's list
C10_Witness ==
    /\ pc = "ret" /\ first_run /\ fetched = "ok"
    /\ interrupted \in LinksOf(items)
    /\ interrupted # LinkOf(items[1])

\* C11: no failure ends the poll loop: after a fetch, delivery or store
\* failure the scheduler task is still alive and goes on to its next cycle.
C11_PollLoopSurvives == pc # "crashed"

\* C12: when the escaped body is longer than 900 characters the message keeps
\* exactly its first 900 characters and the 3-character ellipsis, and the whole
\* message is within the limit of the mode it is sent in, whatever the lengths
\* of title, link and support link.
C12_TruncatedAndWithinLimit ==
    msg.stage = "built" =>
        /\ msg.safe_text > TextLimit =>
               (msg.kept = TextLimit /\ msg.ellipsis = EllipsisLen)
        /\ msg.len <= SinkLimit(msg.image)

\* C13: add_post is never invoked for a link the store already holds, so the
\* store (one row per link) never gets a second record for a link, also when
\* the feed lists the same link more than once.
C13_AddPostOnlyForAbsentLink ==
    /\ pc = "record" => ~post_exists(Last(cycCalls).link)
    /\ (pc = "boot_mark" /\ BootMarks(CurLink)) => ~add_post_raises(CurLink)

\* the STEADY loop is at a second listing of a link it recorded in this cycle
C13_Witness ==
    /\ pc = "steady"
    /\ Truthy(CurLink)
    /\ CurLink \in store \ store0

\* C14: first_run is true exactly until the first process_feed call of the
\* run has returned, whatever that call's outcome, and false from then on.
C14_BootstrapExactlyFirstCycle == pc # "down" => (first_run <=> ~returned)

\* a STEADY cycle runs right after a cycle that failed
C14_Witness == ~first_run /\ pc = "steady" /\ prev = "dirty"

\* the store as the STEADY loop found it when it reached position p: the
\* records of the cycle's start and those written for the items after p
StoreWhenReached(p) ==
    store0 \cup {cycCalls[i].link : i \in {j \in 1..Len(cycCalls) :
                                            cycCalls[j].pos > p /\ cycCalls[j].out = "ok"}}

\* C15: in a STEADY cycle an item gets a delivery call exactly when it has a
\* link and that link is not recorded at the moment the loop reaches it,
\* whatever happened to the items before it.
C15_EveryNewItemCalled ==
    (pc = "ret" /\ ~first_run /\ fetched = "ok") =>
        \A p \in 1..Len(items) :
            (\E i \in 1..Len(cycCalls) : cycCalls[i].pos = p)
                <=> (Truthy(LinkOf(items[p]))
                     /\ LinkOf(items[p]) \notin StoreWhenReached(p))

\* a STEADY cycle with an item without link, whose first call failed and which
\* went on to a later call
C15_Witness ==
    /\ pc = "ret" /\ ~first_run
    /\ Len(cycCalls) >= 2
    /\ cycCalls[1].out = "fail"
    /\ \E p \in 1..Len(items) : ~Truthy(LinkOf(items[p]))

\* C16: between the items of a cycle, the task has paused once for every
\* delivery call the sink accepted, and for nothing else.
C16_PauseAfterEverySuccess ==
    pc \in {"steady", "boot_mark", "ret"} =>
        pauses = Cardinality({i \in 1..Len(cycCalls) : Posted(cycCalls[i])})

\* C17: in a STEADY cycle a record is written only by send_item, for the link
\* whose delivery call the sink has just accepted.
C17_SteadyRecordsOnlyDelivered ==
    [][(~first_run /\ store' # store) =>
          /\ pc = "record"
          /\ Last(cycCalls).out = "sent"
          /\ store' = store \cup {Last(cycCalls).link}]_vars

\* a STEADY cycle has written a record and has had a call fail
C17_Witness ==
    /\ ~first_run /\ fetched = "ok"
    /\ store # store0
    /\ \E i \in 1..Len(cycCalls) : cycCalls[i].out = "fail"

\* C18: the set of recorded links only grows, over every step of a cycle,
\* every failure and every restart.
C18_StoreOnlyGrows == [][store \subseteq store']_vars

\* the process has been started again over a store that holds records
C18_Witness == pc = "poll" /\ first_run /\ ~returned /\ store # {}

====
